---------------------------- MODULE Spec2Model ----------------------------
(***************************************************************************)
(* A model of the RLP codec of rlp/codec.py: prefix framing, the raw       *)
(* encoder and decoder, the encode/decode entry points with sedes          *)
(* selection, and the _cached_rlp slot of cache-bearing objects.            *)
(*                                                                         *)
(* Python values are tagged records.  A byte is an integer 0..255, a byte  *)
(* string a sequence of bytes.  Python's 0-based indexing and clipping     *)
(* slices are the operators At and Slice.  A function that may raise       *)
(* returns a record whose err field names the exception ("none" if none).  *)
(***************************************************************************)
EXTENDS Integers, Sequences, FiniteSets, TLC

VARIABLES pc, arg, res, obj, call, cache, thr

vars == <<pc, arg, res, obj, call, cache, thr>>

(***************************************************************************)
(* Bytes, indexing and slicing                                             *)
(***************************************************************************)
Min(a, b) == IF a < b THEN a ELSE b

\* rlp[a:b]: never raises, clipped to the string
Slice(s, a, b) == SubSeq(s, a + 1, Min(b, Len(s)))

\* rlp[i], defined for 0 <= i < len(rlp) (the callers test InRange first)
At(s, i) == s[i + 1]

InRange(s, i) == i >= 0 /\ i < Len(s)

\* n copies of byte x
Fill(n, x) == [i \in 1..n |-> x]

RECURSIVE int_to_big_endian(_)
\* eth_utils.int_to_big_endian: minimal big-endian bytes, one zero byte for 0
int_to_big_endian(n) ==
    IF n < 256 THEN <<n>>
    ELSE Append(int_to_big_endian(n \div 256), n % 256)

RECURSIVE big_endian_to_int(_)
\* eth_utils.big_endian_to_int: 0 for the empty string
big_endian_to_int(b) ==
    IF b = <<>> THEN 0
    ELSE 256 * big_endian_to_int(SubSeq(b, 1, Len(b) - 1)) + b[Len(b)]

(***************************************************************************)
(* Trees: the raw domain.  t is "leaf" (an Atomic, bytes in b), "list" (a  *)
(* non-text sequence, children in k) or "other" (anything else).           *)
(***************************************************************************)
Leaf(b) == [t |-> "leaf", b |-> b, k |-> <<>>]

ListOf(k) == [t |-> "list", b |-> <<>>, k |-> k]

OtherItem == [t |-> "other", b |-> <<>>, k |-> <<>>]

\* the number of bytes LONG_LENGTH = 256**8 allows a length to have
LONG_LENGTH_BYTES == 8

\* first prefix byte of a long string: 128 + 56
SHORT_STRING == 184

Ok(v) == [err |-> "none", v |-> v]

Raise(e) == [err |-> e, v |-> <<>>]

\* length_prefix(length, offset), a ValueError when length >= 256**8
length_prefix_long_off_by_one(length, offset) ==
    IF length <= 56 THEN Ok(<<offset + length>>)
    ELSE Ok(<<offset + 55 + Len(int_to_big_endian(length))>>
            \o int_to_big_endian(length))

length_prefix(length, offset) ==
    IF length < 56 THEN Ok(<<offset + length>>)
    ELSE IF Len(int_to_big_endian(length)) <= LONG_LENGTH_BYTES
         THEN Ok(<<offset + 56 - 1 + Len(int_to_big_endian(length))>>
                 \o int_to_big_endian(length))
         ELSE Raise("ValueError")

RECURSIVE encode_raw(_)
RECURSIVE JoinEncoded(_, _)
\* b''.join(encode_raw(x) for x in item): the first child's error, if any
JoinEncoded(k, i) ==
    IF i > Len(k) THEN Ok(<<>>)
    ELSE LET e == encode_raw(k[i])
         IN  IF e.err # "none" THEN e
             ELSE LET r == JoinEncoded(k, i + 1)
                  IN  IF r.err # "none" THEN r ELSE Ok(e.v \o r.v)

\* the prefix and the payload, an EncodingError when the prefix cannot be built
Framed(payload, prefix_offset) ==
    LET p == length_prefix(Len(payload), prefix_offset)
    IN  IF p.err # "none" THEN Raise("EncodingError") ELSE Ok(p.v \o payload)

encode_raw_no_single_byte(item) ==
    IF item.t = "leaf" THEN Framed(item.b, 128)
    ELSE IF item.t = "list"
         THEN LET j == JoinEncoded(item.k, 1)
              IN  IF j.err # "none" THEN j ELSE Framed(j.v, 192)
         ELSE Raise("EncodingError")

encode_raw(item) ==
    IF item.t = "leaf"
    THEN IF Len(item.b) = 1 /\ item.b[1] < 128 THEN Ok(item.b)
         ELSE Framed(item.b, 128)
    ELSE IF item.t = "list"
         THEN LET j == JoinEncoded(item.k, 1)
              IN  IF j.err # "none" THEN j ELSE Framed(j.v, 192)
         ELSE Raise("EncodingError")

(***************************************************************************)
(* Raw decoding                                                            *)
(***************************************************************************)
PrefixOk(prefix, type, length, end) ==
    [err |-> "none", prefix |-> prefix, type |-> type, length |-> length,
     end |-> end]

PrefixErr(e) ==
    [err |-> e, prefix |-> <<>>, type |-> "bytes", length |-> 0, end |-> 0]

\* the long form shared by strings and lists (lines 135-142 and 146-153)
LongPrefix(rlp, start, b0, ll, type) ==
    IF Slice(rlp, start + 1, start + 2) = <<0>> THEN PrefixErr("DecodingError")
    ELSE LET len_prefix == Slice(rlp, start + 1, start + 1 + ll)
             l == big_endian_to_int(len_prefix)
         IN  IF l < 56 THEN PrefixErr("DecodingError")
             ELSE PrefixOk(int_to_big_endian(b0) \o len_prefix, type, l,
                           start + 1 + ll)

consume_length_prefix_lenient(rlp, start) ==
    IF ~InRange(rlp, start) THEN PrefixErr("IndexError")
    ELSE LET b0 == At(rlp, start)
         IN  IF b0 < 128 THEN PrefixOk(<<>>, "bytes", 1, start)
             ELSE IF b0 < SHORT_STRING
                  THEN PrefixOk(int_to_big_endian(b0), "bytes", b0 - 128,
                                start + 1)
             ELSE IF b0 < 192
                  THEN LET ll == b0 - 183
                           len_prefix == Slice(rlp, start + 1, start + 1 + ll)
                       IN  PrefixOk(int_to_big_endian(b0) \o len_prefix,
                                    "bytes", big_endian_to_int(len_prefix),
                                    start + 1 + ll)
             ELSE IF b0 < 192 + 56
                  THEN PrefixOk(int_to_big_endian(b0), "list", b0 - 192,
                                start + 1)
             ELSE LongPrefix(rlp, start, b0, b0 - 192 - 56 + 1, "list")

consume_length_prefix(rlp, start) ==
    IF ~InRange(rlp, start) THEN PrefixErr("IndexError")
    ELSE LET b0 == At(rlp, start)
         IN  IF b0 < 128 THEN PrefixOk(<<>>, "bytes", 1, start)
             ELSE IF b0 < SHORT_STRING
                  THEN IF b0 - 128 = 1 /\ ~InRange(rlp, start + 1)
                       THEN PrefixErr("IndexError")
                       ELSE IF b0 - 128 = 1 /\ At(rlp, start + 1) < 128
                            THEN PrefixErr("DecodingError")
                            ELSE PrefixOk(int_to_big_endian(b0), "bytes",
                                          b0 - 128, start + 1)
             ELSE IF b0 < 192
                  THEN LongPrefix(rlp, start, b0, b0 - 183, "bytes")
             ELSE IF b0 < 192 + 56
                  THEN PrefixOk(int_to_big_endian(b0), "list", b0 - 192,
                                start + 1)
             ELSE LongPrefix(rlp, start, b0, b0 - 192 - 56 + 1, "list")

\* a decoded item with the bytes that encoded it: the pair (item, rlp)
WithRlp(t, b, k, rlp) == [t |-> t, b |-> b, k |-> k, rlp |-> rlp]

ItemOk(item, end) == [err |-> "none", item |-> item, end |-> end]

ItemErr(e) == [err |-> e, item |-> WithRlp("leaf", <<>>, <<>>, <<>>), end |-> 0]

RECURSIVE consume_payload(_, _, _, _, _)
RECURSIVE ConsumeItems(_, _, _, _, _)
\* the while loop of consume_payload (lines 174-182)
ConsumeItems(rlp, next_item_start, end, items, list_rlp) ==
    IF next_item_start < end
    THEN LET h == consume_length_prefix(rlp, next_item_start)
         IN  IF h.err # "none" THEN ItemErr(h.err)
             ELSE LET c == consume_payload(rlp, h.prefix, h.end, h.type,
                                           h.length)
                  IN  IF c.err # "none" THEN c
                      ELSE ConsumeItems(rlp, c.end, end,
                                        Append(items, c.item),
                                        list_rlp \o c.item.rlp)
    ELSE IF next_item_start > end THEN ItemErr("DecodingError")
         ELSE ItemOk(WithRlp("list", <<>>, items, list_rlp), next_item_start)

consume_payload(rlp, prefix, start, type_, length) ==
    IF type_ = "bytes"
    THEN LET item == Slice(rlp, start, start + length)
         IN  ItemOk(WithRlp("leaf", item, <<>>, prefix \o item),
                    start + length)
    ELSE IF type_ = "list"
         THEN ConsumeItems(rlp, start, start + length, <<>>, prefix)
         ELSE ItemErr("TypeError")

consume_item(rlp, start) ==
    LET h == consume_length_prefix(rlp, start)
    IN  IF h.err # "none" THEN ItemErr(h.err)
        ELSE consume_payload(rlp, h.prefix, h.end, h.type, h.length)


(***************************************************************************)
(* Python values.  A value that is None, a byte string or a list of such   *)
(* (what encode returns, what _cached_rlp holds, what decode is given) is  *)
(* a record with t in "none", "bytes", "list".                             *)
(***************************************************************************)
NoneVal == [t |-> "none", b |-> <<>>, k |-> <<>>]

BytesVal(b) == [t |-> "bytes", b |-> b, k |-> <<>>]

ListVal(k) == [t |-> "list", b |-> <<>>, k |-> k]

\* Python truth of None, a byte string or a list
Truthy(x) == (x.t = "bytes" /\ x.b # <<>>) \/ (x.t = "list" /\ x.k # <<>>)

is_bytes(x) == x.t = "bytes"

(***************************************************************************)
(* A sedes is a name and its sub-sedes; None is the absent sedes.          *)
(*   big_endian_int, binary, boolean, text   the built-in leaf codecs      *)
(*   List           a fixed-arity sequence of sedes                        *)
(*   Serializable   a record class, its instances sequences of fields      *)
(*   Plain          a class whose instances carry _cached_rlp and are not  *)
(*                  sequences, deserialized from a list item               *)
(*   Tagged         the same, deserialized from a leaf item                *)
(*   Split          a codec that deserializes a leaf into a tuple of ints  *)
(***************************************************************************)
Sedes(s, k) == [s |-> s, k |-> k]

None == Sedes("None", <<>>)

big_endian_int == Sedes("big_endian_int", <<>>)

binary == Sedes("binary", <<>>)

boolean == Sedes("boolean", <<>>)

text == Sedes("text", <<>>)

List(k) == Sedes("List", k)

\* `if sedes:` (lines 60 and 227): a sedes object is true, None is not
SedesTruthy(sedes) == sedes.s # "None"

(***************************************************************************)
(* An object: ty is its Python type, n an integer's or boolean's value, b  *)
(* a byte string's bytes or a text's code points, k a sequence's elements  *)
(* or an instance's fields, cls an instance's class (a sedes), cache its   *)
(* _cached_rlp (NoneVal where the type has no such attribute).             *)
(***************************************************************************)
Obj(ty, n, b, k, cls, c) ==
    [ty |-> ty, n |-> n, b |-> b, k |-> k, cls |-> cls, cache |-> c]

PyInt(n) == Obj("int", n, <<>>, <<>>, None, NoneVal)

PyBool(n) == Obj("bool", n, <<>>, <<>>, None, NoneVal)

PyBytes(b) == Obj("bytes", 0, b, <<>>, None, NoneVal)

PyStr(cps) == Obj("str", 0, cps, <<>>, None, NoneVal)

PySeq(k) == Obj("seq", 0, <<>>, k, None, NoneVal)

\* a freshly constructed instance: the cache slot is empty
Instance(cls, k) ==
    Obj(IF cls.s = "Serializable" THEN "rec" ELSE "plain", 0, <<>>, k, cls,
        NoneVal)

Tag(b) == Obj("tag", 0, b, <<>>, Sedes("Tagged", <<>>), NoneVal)

NoObj == Obj("absent", 0, <<>>, <<>>, None, NoneVal)

\* isinstance(obj, Serializable)
IsSerializable(o) == o.ty = "rec"

\* hasattr(obj, '_cached_rlp')
HasCachedRlp(o) == o.ty \in {"rec", "plain", "tag"}

\* rlp.sedes.lists.is_sequence: a Sequence that is neither text nor bytes
is_sequence(o) == o.ty \in {"seq", "rec"}

\* isinstance(obj, int): a Python bool is an int
IsInt(o) == o.ty \in {"int", "bool"}

\* BinaryClass.is_valid_type
IsBinary(o) == o.ty = "bytes"

\* is_sedes(obj.__class__)
ClassIsSedes(o) == o.ty \in {"rec", "plain"}

RECURSIVE AsItem(_)
\* an object seen by encode_raw: bytes are Atomic, a non-text Sequence a list
AsItem(o) ==
    IF o.ty = "bytes" THEN Leaf(o.b)
    ELSE IF is_sequence(o) THEN ListOf([i \in 1..Len(o.k) |-> AsItem(o.k[i])])
    ELSE OtherItem

RECURSIVE FromItem(_)
\* the bare item decode returns without a sedes: bytes and lists
FromItem(item) ==
    IF item.t = "leaf" THEN PyBytes(item.b)
    ELSE PySeq([i \in 1..Len(item.k) |-> FromItem(item.k[i])])

(***************************************************************************)
(* UTF-8 for code points below 0x800                                       *)
(***************************************************************************)
RECURSIVE utf8_encode(_)
utf8_encode(cps) ==
    IF cps = <<>> THEN <<>>
    ELSE LET c == Head(cps)
         IN  (IF c < 128 THEN <<c>>
              ELSE <<192 + (c \div 64), 128 + (c % 64)>>)
             \o utf8_encode(Tail(cps))

RECURSIVE utf8_decode(_)
\* the code points, or a UnicodeDecodeError (overlong forms included)
utf8_decode(b) ==
    IF b = <<>> THEN Ok(<<>>)
    ELSE IF b[1] < 128
         THEN LET r == utf8_decode(Tail(b))
              IN  IF r.err # "none" THEN r ELSE Ok(<<b[1]>> \o r.v)
    ELSE IF b[1] >= 194 /\ b[1] < 224 /\ Len(b) >= 2
            /\ b[2] >= 128 /\ b[2] < 192
         THEN LET r == utf8_decode(SubSeq(b, 3, Len(b)))
              IN  IF r.err # "none" THEN r
                  ELSE Ok(<<(b[1] - 192) * 64 + (b[2] - 128)>> \o r.v)
    ELSE Raise("UnicodeDecodeError")

(***************************************************************************)
(* The sedes layer: serialize and deserialize                              *)
(***************************************************************************)
RECURSIVE Serialize(_, _)
RECURSIVE SerializeEach(_, _, _)
SerializeEach(subs, k, i) ==
    IF i > Len(k) THEN Ok(<<>>)
    ELSE LET e == Serialize(subs[i], k[i])
         IN  IF e.err # "none" THEN e
             ELSE LET r == SerializeEach(subs, k, i + 1)
                  IN  IF r.err # "none" THEN r ELSE Ok(<<e.v>> \o r.v)

SerializeFields(subs, k) ==
    IF Len(subs) # Len(k) THEN Raise("SerializationError")
    ELSE LET r == SerializeEach(subs, k, 1)
         IN  IF r.err # "none" THEN r ELSE Ok(ListOf(r.v))

Serialize(sedes, o) ==
    CASE sedes.s = "big_endian_int" ->
           IF o.ty = "int" /\ o.n >= 0
           THEN Ok(Leaf(IF o.n = 0 THEN <<>> ELSE int_to_big_endian(o.n)))
           ELSE Raise("SerializationError")
      [] sedes.s = "binary" ->
           IF o.ty = "bytes" THEN Ok(Leaf(o.b))
           ELSE Raise("SerializationError")
      [] sedes.s = "boolean" ->
           IF o.ty = "bool" THEN Ok(Leaf(IF o.n = 1 THEN <<1>> ELSE <<>>))
           ELSE Raise("SerializationError")
      [] sedes.s = "text" ->
           IF o.ty = "str" THEN Ok(Leaf(utf8_encode(o.b)))
           ELSE Raise("SerializationError")
      [] sedes.s = "List" ->
           IF is_sequence(o) THEN SerializeFields(sedes.k, o.k)
           ELSE Raise("SerializationError")
      [] sedes.s \in {"Serializable", "Plain"} ->
           IF o.ty \in {"rec", "plain"} /\ o.cls = sedes
           THEN SerializeFields(sedes.k, o.k)
           ELSE Raise("SerializationError")
      [] sedes.s = "Tagged" ->
           IF o.ty = "tag" THEN Ok(Leaf(o.b))
           ELSE Raise("SerializationError")
      [] sedes.s = "Split" ->
           IF o.ty = "seq" /\ \A i \in 1..Len(o.k) : o.k[i].ty = "int"
           THEN Ok(Leaf([i \in 1..Len(o.k) |-> o.k[i].n]))
           ELSE Raise("SerializationError")
      [] OTHER -> Raise("SerializationError")

RECURSIVE Deserialize(_, _)
RECURSIVE DeserializeEach(_, _, _)
DeserializeEach(subs, k, i) ==
    IF i > Len(k) THEN Ok(<<>>)
    ELSE LET e == Deserialize(subs[i], k[i])
         IN  IF e.err # "none" THEN e
             ELSE LET r == DeserializeEach(subs, k, i + 1)
                  IN  IF r.err # "none" THEN r ELSE Ok(<<e.v>> \o r.v)

DeserializeFields(subs, item) ==
    IF item.t # "list" \/ Len(subs) # Len(item.k)
    THEN Raise("DeserializationError")
    ELSE DeserializeEach(subs, item.k, 1)

DeserErr == [err |-> "DeserializationError", v |-> NoObj]

Deserialize(sedes, item) ==
    CASE sedes.s = "big_endian_int" ->
           IF item.t # "leaf" \/ (item.b # <<>> /\ item.b[1] = 0) THEN DeserErr
           ELSE Ok(PyInt(big_endian_to_int(item.b)))
      [] sedes.s = "binary" ->
           IF item.t # "leaf" THEN DeserErr ELSE Ok(PyBytes(item.b))
      [] sedes.s = "boolean" ->
           IF item.t = "leaf" /\ item.b = <<>> THEN Ok(PyBool(0))
           ELSE IF item.t = "leaf" /\ item.b = <<1>> THEN Ok(PyBool(1))
           ELSE DeserErr
      [] sedes.s = "text" ->
           IF item.t # "leaf" THEN DeserErr
           ELSE LET u == utf8_decode(item.b)
                IN  IF u.err # "none" THEN DeserErr ELSE Ok(PyStr(u.v))
      [] sedes.s = "List" ->
           LET r == DeserializeFields(sedes.k, item)
           IN  IF r.err # "none" THEN DeserErr ELSE Ok(PySeq(r.v))
      [] sedes.s \in {"Serializable", "Plain"} ->
           LET r == DeserializeFields(sedes.k, item)
           IN  IF r.err # "none" THEN DeserErr ELSE Ok(Instance(sedes, r.v))
      [] sedes.s = "Tagged" ->
           IF item.t # "leaf" THEN DeserErr ELSE Ok(Tag(item.b))
      [] sedes.s = "Split" ->
           IF item.t # "leaf" THEN DeserErr
           ELSE Ok(PySeq([i \in 1..Len(item.b) |-> PyInt(item.b[i])]))
      [] OTHER -> DeserErr

(***************************************************************************)
(* infer_sedes                                                             *)
(***************************************************************************)
RECURSIVE infer_sedes(_)
RECURSIVE InferEach(_, _)
\* map(infer_sedes, obj): the first TypeError, if any
InferEach(k, i) ==
    IF i > Len(k) THEN Ok(<<>>)
    ELSE LET e == infer_sedes(k[i])
         IN  IF e.err # "none" THEN e
             ELSE LET r == InferEach(k, i + 1)
                  IN  IF r.err # "none" THEN r ELSE Ok(<<e.v>> \o r.v)

infer_sedes(o) ==
    IF ClassIsSedes(o) THEN Ok(o.cls)
    ELSE IF o.ty # "bool" /\ IsInt(o) /\ o.n >= 0 THEN Ok(big_endian_int)
    ELSE IF IsBinary(o) THEN Ok(binary)
    ELSE IF o.ty # "str" /\ is_sequence(o)
         THEN LET r == InferEach(o.k, 1)
              IN  IF r.err # "none" THEN r ELSE Ok(List(r.v))
    ELSE IF o.ty = "bool" THEN Ok(boolean)
    ELSE IF o.ty = "str" THEN Ok(text)
    ELSE Raise("TypeError")

(***************************************************************************)
(* encode.  The result: err, out (the returned value), obj (the object     *)
(* after the call), and two records of what the call did: hit (it returned *)
(* the stored _cached_rlp) and wrote (it assigned _cached_rlp).            *)
(***************************************************************************)
Encoded(err, out, o, hit, wrote) ==
    [err |-> err, out |-> out, obj |-> o, hit |-> hit, wrote |-> wrote]

\* lines 60-65: the item handed to encode_raw
ItemToEncode(o, sedes, infer_serializer) ==
    IF SedesTruthy(sedes) THEN Serialize(sedes, o)
    ELSE IF infer_serializer
         THEN LET s == infer_sedes(o)
              IN  IF s.err # "none" THEN s ELSE Serialize(s.v, o)
         ELSE Ok(AsItem(o))

\* a write that adds to what the slot holds instead of replacing it
CacheStoreAppend(slot, result) ==
    IF slot.t = "bytes" THEN BytesVal(slot.b \o result) ELSE BytesVal(result)

\* obj._cached_rlp = result (line 69): the slot's new value
CacheStore(slot, result) == BytesVal(result)

\* lines 60-70, after really_cache is decided
EncodeAndStore(o, sedes, infer_serializer, really_cache) ==
    LET item == ItemToEncode(o, sedes, infer_serializer)
    IN  IF item.err # "none" THEN Encoded(item.err, NoneVal, o, FALSE, FALSE)
        ELSE LET result == encode_raw(item.v)
             IN  IF result.err # "none"
                 THEN Encoded(result.err, NoneVal, o, FALSE, FALSE)
                 ELSE IF really_cache
                      THEN Encoded("none", BytesVal(result.v),
                                   [o EXCEPT !.cache =
                                       CacheStore(o.cache, result.v)],
                                   FALSE, TRUE)
                      ELSE Encoded("none", BytesVal(result.v), o, FALSE, FALSE)

encode_cache_despite_sedes(o, sedes, infer_serializer, cache_) ==
    IF IsSerializable(o)
    THEN IF Truthy(o.cache) THEN Encoded("none", o.cache, o, TRUE, FALSE)
         ELSE EncodeAndStore(o, sedes, infer_serializer, cache_)
    ELSE EncodeAndStore(o, sedes, infer_serializer, FALSE)

encode(o, sedes, infer_serializer, cache_) ==
    IF IsSerializable(o)
    THEN IF sedes = None /\ Truthy(o.cache)
         THEN Encoded("none", o.cache, o, TRUE, FALSE)
         ELSE EncodeAndStore(o, sedes, infer_serializer,
                             cache_ /\ sedes = None)
    ELSE EncodeAndStore(o, sedes, infer_serializer, FALSE)

(***************************************************************************)
(* decode                                                                  *)
(***************************************************************************)
RECURSIVE split_rlp_from_item(_)
\* (item, rlp) -> the bare item and, in parallel, its per-item rlp
split_rlp_from_item(item_and_rlp) ==
    IF item_and_rlp.t = "leaf"
    THEN [item |-> Leaf(item_and_rlp.b), rlp |-> BytesVal(item_and_rlp.rlp)]
    ELSE LET subs == [i \in 1..Len(item_and_rlp.k) |->
                         split_rlp_from_item(item_and_rlp.k[i])]
         IN  [item |-> ListOf([i \in 1..Len(subs) |-> subs[i].item]),
              rlp |-> ListVal(<<BytesVal(item_and_rlp.rlp)>>
                              \o [i \in 1..Len(subs) |-> subs[i].rlp])]

\* the outcome of a walk: the object as the walk left it, and what is left
\* of the list the walk popped from
Walked(err, o, rest) == [err |-> err, obj |-> o, rest |-> rest]

RECURSIVE apply_rlp_cache(_, _)
RECURSIVE ApplyToSubs(_, _, _)
\* the loop of lines 257-262 from element i on, split_rlp being what the
\* pops so far have left
ApplyToSubs(o, i, split_rlp) ==
    IF i > Len(o.k) THEN Walked("none", o, split_rlp)
    ELSE IF is_sequence(o.k[i])
         THEN IF split_rlp.k = <<>> THEN Walked("IndexError", o, split_rlp)
              ELSE LET sub_rlp == Head(split_rlp.k)
                       w == apply_rlp_cache(o.k[i], sub_rlp)
                       o2 == [o EXCEPT !.k[i] = w.obj]
                       rest == ListVal(Tail(split_rlp.k))
                   IN  IF w.err # "none" THEN Walked(w.err, o2, rest)
                       ELSE ApplyToSubs(o2, i + 1, rest)
         ELSE LET w == apply_rlp_cache(o.k[i], split_rlp)
                  o2 == [o EXCEPT !.k[i] = w.obj]
              IN  IF w.err # "none" THEN Walked(w.err, o2, w.rest)
                  ELSE ApplyToSubs(o2, i + 1, w.rest)

apply_rlp_cache(o, split_rlp) ==
    IF split_rlp.t # "list" THEN Walked("AttributeError", o, split_rlp)
    ELSE IF split_rlp.k = <<>> THEN Walked("IndexError", o, split_rlp)
    ELSE LET item_rlp == Head(split_rlp.k)
             rest == ListVal(Tail(split_rlp.k))
             o1 == IF HasCachedRlp(o) THEN [o EXCEPT !.cache = item_rlp]
                   ELSE o
         IN  IF is_sequence(o1) THEN ApplyToSubs(o1, 1, rest)
             ELSE Walked("none", o1, rest)

\* The result: err, v (the returned object), and two records of the call:
\* built, the object as sedes.deserialize returned it, and walked, the same
\* object as _apply_rlp_cache left it (NoObj where the call did not get there)
Decoded(err, v, built, walked) ==
    [err |-> err, v |-> v, built |-> built, walked |-> walked]

\* lines 226-233
DecodeItem(item_with_rlp, sedes) ==
    LET sp == split_rlp_from_item(item_with_rlp)
    IN  IF SedesTruthy(sedes)
        THEN LET d == Deserialize(sedes, sp.item)
             IN  IF d.err # "none" THEN Decoded(d.err, NoObj, NoObj, NoObj)
                 ELSE IF is_sequence(d.v) \/ HasCachedRlp(d.v)
                      THEN LET w == apply_rlp_cache(d.v, sp.rlp)
                           IN  IF w.err # "none"
                               THEN Decoded(w.err, NoObj, d.v, w.obj)
                               ELSE Decoded("none", w.obj, d.v, w.obj)
                      ELSE Decoded("none", d.v, d.v, d.v)
        ELSE Decoded("none", FromItem(sp.item), NoObj, NoObj)

decode(rlp, sedes, strict) ==
    IF ~is_bytes(rlp) THEN Decoded("DecodingError", NoObj, NoObj, NoObj)
    ELSE LET c == consume_item(rlp.b, 0)
         IN  IF c.err = "IndexError"
             THEN Decoded("DecodingError", NoObj, NoObj, NoObj)
             ELSE IF c.err # "none" THEN Decoded(c.err, NoObj, NoObj, NoObj)
             ELSE IF c.end # Len(rlp.b) /\ strict
                  THEN Decoded("DecodingError", NoObj, NoObj, NoObj)
                  ELSE DecodeItem(c.item, sedes)

(***************************************************************************)
(* Bounds of the checked instances                                         *)
(***************************************************************************)
\* payload lengths 0..MaxLength are framed (55, 56 and 57 among them)
MaxLength == 57

\* a prefix is read at positions 0..MaxStart of its buffer
MaxStart == 1

\* trees of at most MaxNodes nodes are encoded
MaxNodes == 4

\* byte strings over InputBytes of at most MaxInputLen bytes are decoded
MaxInputLen == 3

\* the caller builds sequences of at most MaxSeqLen elements
MaxSeqLen == 2

\* encode runs in NumThreads threads at once
NumThreads == 2

\* the variables a specification does not use keep these values
Unused == "unused"

(***************************************************************************)
(* SpecPrefix: length_prefix, then consume_length_prefix on the prefix     *)
(* followed by its payload, at a position of a longer buffer               *)
(***************************************************************************)
Lengths == (0..MaxLength) \cup {255, 256, 65535, 65536}

FillBytes == {0, 127, 128, 255}

PrefixArgs == [n : Lengths, o : {128, 192}, p : 0..MaxStart, x : FillBytes]

\* p bytes that are not part of the item, the prefix, n payload bytes x
Buffer(a, prefix) == Fill(a.p, 255) \o prefix \o Fill(a.n, a.x)

InitPrefix ==
    /\ pc = "start"
    /\ arg \in PrefixArgs
    /\ res = [prefix |-> Raise("not run"), head |-> PrefixErr("not run")]
    /\ obj = Unused /\ call = Unused /\ cache = Unused /\ thr = Unused

FramePrefix ==
    /\ pc = "start"
    /\ pc' = "framed"
    /\ res' = [res EXCEPT !.prefix = length_prefix(arg.n, arg.o)]
    /\ UNCHANGED <<arg, obj, call, cache, thr>>

ConsumePrefix ==
    /\ pc = "framed"
    /\ res.prefix.err = "none"
    /\ pc' = "consumed"
    /\ res' = [res EXCEPT !.head =
                  consume_length_prefix(Buffer(arg, res.prefix.v), arg.p)]
    /\ UNCHANGED <<arg, obj, call, cache, thr>>

NextPrefix == FramePrefix \/ ConsumePrefix

SpecPrefix == InitPrefix /\ [][NextPrefix]_vars

\* C10: length_prefix(n, o) is the single byte o+n when n < 56 and otherwise
\* the byte o+55+len(L) followed by L, the big-endian form of n with no
\* leading zero byte (one byte in all for 55, two for 56); and
\* consume_length_prefix at position p of that prefix followed by n payload
\* bytes returns that prefix, the kind o selects, the length n and the payload
\* start p+len(prefix), except for a leaf of one byte below 0x80, which it
\* rejects.
PrefixRoundTrip ==
    LET pre == res.prefix.v
        kind == IF arg.o = 128 THEN "bytes" ELSE "list"
    IN  /\ pc \in {"framed", "consumed"} =>
              /\ res.prefix.err = "none"
              /\ IF arg.n < 56 THEN pre = <<arg.o + arg.n>>
                 ELSE /\ Len(pre) >= 2
                      /\ pre[1] = arg.o + 55 + (Len(pre) - 1)
                      /\ pre[2] # 0
                      /\ big_endian_to_int(Tail(pre)) = arg.n
              /\ arg.n = 55 => Len(pre) = 1
              /\ arg.n = 56 => Len(pre) = 2
        /\ pc = "consumed" =>
              IF arg.o = 128 /\ arg.n = 1 /\ arg.x < 128
              THEN res.head.err = "DecodingError"
              ELSE res.head = PrefixOk(pre, kind, arg.n, arg.p + Len(pre))

\* a long list prefix of a 56-byte payload has been read back at position 1
PrefixRoundTripWitness ==
    /\ pc = "consumed" /\ arg.n = 56 /\ arg.o = 192 /\ arg.p = 1
    /\ res.head.err = "none" /\ res.head.length = 56
    /\ res.head.type = "list" /\ res.head.end = 3

(***************************************************************************)
(* SpecRaw: encode_raw of a tree, then strict decode without a sedes       *)
(***************************************************************************)
LeafBytes ==
    {<<>>, <<0>>, <<127>>, <<128>>, <<97, 98>>, Fill(55, 97), Fill(56, 97)}

RECURSIVE TreesOfSize(_)
RECURSIVE ForestsOfSize(_)
\* the trees of exactly n nodes
TreesOfSize(n) ==
    IF n = 1 THEN {Leaf(b) : b \in LeafBytes} \cup {ListOf(<<>>)}
    ELSE {ListOf(f) : f \in ForestsOfSize(n - 1)}

\* the sequences of trees of m nodes in all
ForestsOfSize(m) ==
    IF m = 0 THEN {<<>>}
    ELSE UNION {{<<t>> \o f : t \in TreesOfSize(j),
                              f \in ForestsOfSize(m - j)} : j \in 1..m}

Trees == UNION {TreesOfSize(n) : n \in 1..MaxNodes}

InitRaw ==
    /\ pc = "start"
    /\ arg \in Trees
    /\ res = [enc |-> Raise("not run"),
              dec |-> [err |-> "not run", v |-> NoObj]]
    /\ obj = Unused /\ call = Unused /\ cache = Unused /\ thr = Unused

EncodeRaw ==
    /\ pc = "start"
    /\ pc' = "encoded"
    /\ res' = [res EXCEPT !.enc = encode_raw(arg)]
    /\ UNCHANGED <<arg, obj, call, cache, thr>>

DecodeEncoded ==
    /\ pc = "encoded"
    /\ res.enc.err = "none"
    /\ pc' = "decoded"
    /\ LET d == decode(BytesVal(res.enc.v), None, TRUE)
       IN  res' = [res EXCEPT !.dec = [err |-> d.err, v |-> d.v]]
    /\ UNCHANGED <<arg, obj, call, cache, thr>>

NextRaw == EncodeRaw \/ DecodeEncoded

SpecRaw == InitRaw /\ [][NextRaw]_vars

\* C1: for every tree t, encode_raw(t) succeeds and strict decode of it with
\* no sedes succeeds and returns a tree equal to t.
RawRoundTrip ==
    /\ pc \in {"encoded", "decoded"} => res.enc.err = "none"
    /\ pc = "decoded" => res.dec.err = "none" /\ res.dec.v = FromItem(arg)

\* a list of a 56-byte leaf and a nested list has come back from decode
RawRoundTripWitness ==
    /\ pc = "decoded" /\ res.dec.err = "none"
    /\ arg.t = "list" /\ Len(arg.k) = 2
    /\ arg.k[1] = Leaf(Fill(56, 97)) /\ arg.k[2].t = "list"

(***************************************************************************)
(* SpecBytes: decode of a byte string without a sedes, strict and not, and *)
(* encode_raw of what strict decode returned                               *)
(***************************************************************************)
InputBytes == {0, 127, 128, 129, 130, 184, 192, 193, 194, 248}

RECURSIVE StringsOfLen(_)
StringsOfLen(n) ==
    IF n = 0 THEN {<<>>}
    ELSE {Append(s, x) : s \in StringsOfLen(n - 1), x \in InputBytes}

\* long-form headers, right and wrong, over payloads around the limit of 56:
\* a string's payload is n bytes, a list's one string of n bytes in all
LongInputs ==
    {h \o Fill(n, 97) \o t :
        h \in {<<183>>, <<184, 55>>, <<184, 56>>, <<185, 0, 56>>},
        n \in {54, 55, 56},
        t \in {<<>>, <<128>>}}
    \cup
    {h \o <<128 + n - 1>> \o Fill(n - 1, 97) \o t :
        h \in {<<247>>, <<248, 55>>, <<248, 56>>, <<249, 0, 56>>},
        n \in {54, 55, 56},
        t \in {<<>>, <<128>>}}

ByteInputs == UNION {StringsOfLen(n) : n \in 0..MaxInputLen} \cup LongInputs

NoDecode == [err |-> "not run", v |-> NoObj]

InitBytes ==
    /\ pc = "start"
    /\ arg \in ByteInputs
    /\ res = [strict |-> NoDecode, reenc |-> Raise("not run"),
              lax |-> NoDecode]
    /\ obj = Unused /\ call = Unused /\ cache = Unused /\ thr = Unused

DecodeStrict ==
    /\ pc = "start"
    /\ pc' = "strict"
    /\ LET d == decode(BytesVal(arg), None, TRUE)
       IN  res' = [res EXCEPT !.strict = [err |-> d.err, v |-> d.v]]
    /\ UNCHANGED <<arg, obj, call, cache, thr>>

ReEncode ==
    /\ pc = "strict"
    /\ res.strict.err = "none"
    /\ pc' = "reencoded"
    /\ res' = [res EXCEPT !.reenc = encode_raw(AsItem(res.strict.v))]
    /\ UNCHANGED <<arg, obj, call, cache, thr>>

DecodeLax ==
    /\ pc = "reencoded" \/ (pc = "strict" /\ res.strict.err # "none")
    /\ pc' = "lax"
    /\ LET d == decode(BytesVal(arg), None, FALSE)
       IN  res' = [res EXCEPT !.lax = [err |-> d.err, v |-> d.v]]
    /\ UNCHANGED <<arg, obj, call, cache, thr>>

NextBytes == DecodeStrict \/ ReEncode \/ DecodeLax

SpecBytes == InitBytes /\ [][NextBytes]_vars

\* the first j bytes of b
Prefix(b, j) == SubSeq(b, 1, j)

AcceptedStrict(b) == decode(BytesVal(b), None, TRUE).err = "none"

\* the non-canonical forms of a root item: a byte below 0x80 behind 0x81, a
\* long-form length that starts with 0x00, a long-form length below 56, and
\* bytes after an item that strict decode accepts
NonCanonical(b) ==
    \/ Len(b) >= 2 /\ b[1] = 129 /\ b[2] < 128
    \/ Len(b) >= 2 /\ b[1] \in (184..191) \cup (248..255) /\ b[2] = 0
    \/ Len(b) >= 2 /\ b[1] \in {184, 248} /\ b[2] < 56
    \/ \E j \in 1..(Len(b) - 1) : AcceptedStrict(Prefix(b, j))

\* C2: every byte string that strict decode accepts is the encode_raw of the
\* tree it returns, and strict decode rejects the non-canonical forms.
CanonicalDecoding ==
    /\ pc \in {"reencoded", "lax"} /\ res.strict.err = "none" =>
          res.reenc = Ok(arg)
    /\ pc # "start" /\ NonCanonical(arg) => res.strict.err # "none"

\* a long list over a 56-byte payload has been accepted and encoded back
CanonicalDecodingWitness ==
    /\ pc = "reencoded" /\ res.strict.err = "none"
    /\ Len(arg) > 56 /\ arg[1] = 248

\* C3: non-strict decode succeeds only if strict decode accepts some prefix
\* of the input, and then returns what strict decode returns for that prefix;
\* an input whose item extends past its end is never decoded.
LaxOnlyTrailing ==
    pc = "lax" /\ res.lax.err = "none" =>
        \E j \in 0..Len(arg) :
            LET d == decode(BytesVal(Prefix(arg, j)), None, TRUE)
            IN  d.err = "none" /\ d.v = res.lax.v

(***************************************************************************)
(* Spec: a caller holding one object calls encode and decode with any      *)
(* sedes and flags.  obj is the object in the caller's hands, call the     *)
(* last call: its arguments, its outcome, and the object before it.        *)
(***************************************************************************)
PairC == Sedes("Serializable", <<big_endian_int, binary>>)

BoxC == Sedes("Serializable", <<binary>>)

NestC == Sedes("Serializable", <<BoxC, binary>>)

PlainC == Sedes("Plain", <<binary>>)

TaggedC == Sedes("Tagged", <<>>)

SplitC == Sedes("Split", <<>>)

Atoms ==
    {PyInt(0), PyInt(1), PyInt(128), PyInt(1024), PyInt(-1), PyBool(0),
     PyBool(1), PyBytes(<<>>), PyBytes(<<97>>), PyBytes(<<128>>),
     PyStr(<<>>), PyStr(<<97, 233>>)}

Records ==
    {Instance(PairC, <<PyInt(n), PyBytes(b)>>) :
        n \in {0, 1024}, b \in {<<97>>, <<128>>}}
    \cup {Instance(BoxC, <<PyBytes(b)>>) : b \in {<<>>, <<97>>, <<97, 98>>}}
    \cup {Instance(NestC, <<Instance(BoxC, <<PyBytes(<<97>>)>>),
                            PyBytes(<<128>>)>>),
          Instance(PlainC, <<PyBytes(<<97>>)>>)}

Elements ==
    {PyInt(1), PyBool(1), PyBytes(<<97>>), PyStr(<<233>>),
     Instance(BoxC, <<PyBytes(<<97>>)>>), PySeq(<<>>)}

RECURSIVE SeqsOfLen(_)
SeqsOfLen(n) ==
    IF n = 0 THEN {<<>>}
    ELSE {Append(q, x) : q \in SeqsOfLen(n - 1), x \in Elements}

Sequences ==
    {PySeq(q) : q \in UNION {SeqsOfLen(n) : n \in 0..MaxSeqLen}}
    \cup {PySeq(<<PyInt(-1)>>),
          PySeq(<<Instance(PlainC, <<PyBytes(<<97>>)>>), PyBytes(<<97>>)>>)}

\* what a caller constructs: every _cached_rlp slot is empty
FreshValues == Atoms \cup Records \cup Sequences

\* the sedes a caller passes to encode and to decode
EncodeSedes ==
    {None, big_endian_int, binary, List(<<binary>>),
     List(<<big_endian_int, binary>>), PairC, BoxC}

DecodeSedes ==
    {None, big_endian_int, binary, boolean, text, PairC, BoxC, NestC, PlainC,
     TaggedC, List(<<BoxC, binary>>), List(<<PlainC, BoxC>>),
     List(<<TaggedC, List(<<BoxC>>)>>), List(<<BoxC, SplitC>>)}

\* the values whose encodings decode is given
Samples ==
    Records \cup
    {PyInt(0), PyInt(1024), PyBool(1), PyBytes(<<128>>), PyStr(<<97, 233>>),
     PySeq(<<Instance(BoxC, <<PyBytes(<<97>>)>>), PyBytes(<<97>>)>>),
     PySeq(<<Instance(PlainC, <<PyBytes(<<97>>)>>),
             Instance(BoxC, <<PyBytes(<<97>>)>>)>>),
     PySeq(<<PyBytes(<<97>>),
             PySeq(<<Instance(BoxC, <<PyBytes(<<97>>)>>)>>)>>),
     PySeq(<<Instance(BoxC, <<PyBytes(<<97>>)>>), PyBytes(<<128>>)>>)}

SampleEncodings == {encode(v, None, TRUE, FALSE).out.b : v \in Samples}

\* encodings, encodings cut short by a byte, encodings followed by a byte,
\* and two values that are not byte strings
RlpInputs ==
    {BytesVal(b) : b \in SampleEncodings}
    \cup {BytesVal(SubSeq(b, 1, Len(b) - 1)) : b \in SampleEncodings}
    \cup {BytesVal(b \o <<128>>) : b \in SampleEncodings}
    \cup {NoneVal, ListVal(<<BytesVal(<<128>>)>>)}

NoItem == WithRlp("none", <<>>, <<>>, <<>>)

Idle ==
    [op |-> "none", sedes |-> None, infer |-> FALSE, cachearg |-> FALSE,
     strict |-> FALSE, err |-> "none", out |-> NoneVal, hit |-> FALSE,
     wrote |-> FALSE, before |-> NoObj, item |-> NoItem, built |-> NoObj,
     walked |-> NoObj, ret |-> NoObj]

\* the calls of decode a caller may make, each with its outcome
DecodeCalls ==
    {[rlp |-> rlp, sedes |-> sedes, strict |-> strict,
      d |-> decode(rlp, sedes, strict)] :
        rlp \in RlpInputs, sedes \in DecodeSedes, strict \in BOOLEAN}

Init ==
    /\ obj \in FreshValues
    /\ call = Idle
    /\ pc = Unused /\ arg = Unused /\ res = Unused
    /\ cache = Unused /\ thr = Unused

\* the caller constructs a value
New ==
    /\ call.op = "none"
    /\ \E v \in FreshValues : obj' = v
    /\ UNCHANGED <<call, pc, arg, res, cache, thr>>

\* the caller takes an element of the sequence it holds
Pick ==
    /\ call.op = "none"
    /\ is_sequence(obj)
    /\ \E i \in 1..Len(obj.k) : obj' = obj.k[i]
    /\ UNCHANGED <<call, pc, arg, res, cache, thr>>

Encode ==
    /\ call.op = "none"
    /\ \E sedes \in EncodeSedes, infer_serializer \in BOOLEAN,
          cache_ \in BOOLEAN :
          LET e == encode(obj, sedes, infer_serializer, cache_)
          IN  /\ obj' = e.obj
              /\ call' = [Idle EXCEPT !.op = "encode", !.sedes = sedes,
                            !.infer = infer_serializer, !.cachearg = cache_,
                            !.err = e.err, !.out = e.out, !.hit = e.hit,
                            !.wrote = e.wrote, !.before = obj]
    /\ UNCHANGED <<pc, arg, res, cache, thr>>

\* a failed decode leaves the caller with the object it had
Decode ==
    /\ call.op = "none"
    /\ \E c \in DecodeCalls :
          /\ obj' = IF c.d.err = "none" THEN c.d.v ELSE obj
          /\ call' = [Idle EXCEPT !.op = "decode", !.sedes = c.sedes,
                        !.strict = c.strict, !.err = c.d.err,
                        !.item = IF c.d.err = "none"
                                 THEN consume_item(c.rlp.b, 0).item
                                 ELSE NoItem,
                        !.built = c.d.built, !.walked = c.d.walked]
    /\ UNCHANGED <<pc, arg, res, cache, thr>>

\* decode(encode(v), infer_sedes(v)) for the object v the caller holds
InferRoundTrip ==
    /\ call.op = "none"
    /\ infer_sedes(obj).err = "none"
    /\ LET e == encode(obj, None, TRUE, TRUE)
           d == decode(e.out, infer_sedes(obj).v, TRUE)
       IN  /\ obj' = e.obj
           /\ call' = [Idle EXCEPT !.op = "roundtrip", !.before = obj,
                         !.out = e.out,
                         !.err = IF e.err # "none" THEN e.err ELSE d.err,
                         !.ret = IF e.err # "none" THEN NoObj ELSE d.v]
    /\ UNCHANGED <<pc, arg, res, cache, thr>>

\* the call has returned: the caller keeps the object and goes on
Return ==
    /\ call.op # "none"
    /\ call' = Idle
    /\ UNCHANGED <<obj, pc, arg, res, cache, thr>>

Next == New \/ Pick \/ Encode \/ Decode \/ InferRoundTrip \/ Return

Spec == Init /\ [][Next]_vars

\* the standard encoding of a record: encode_raw of the record serialized
\* under the sedes its class declares
StandardEncoding(o) ==
    LET item == Serialize(o.cls, o)
    IN  IF item.err # "none" THEN NoneVal
        ELSE LET e == encode_raw(item.v)
             IN  IF e.err # "none" THEN NoneVal ELSE BytesVal(e.v)

RECURSIVE CachesStandard(_)
\* every record in o with a non-empty _cached_rlp holds its standard encoding
CachesStandard(o) ==
    /\ IsSerializable(o) /\ Truthy(o.cache) => o.cache = StandardEncoding(o)
    /\ \A i \in 1..Len(o.k) : CachesStandard(o.k[i])

\* C4: in every state reachable by encode and decode calls, every record
\* whose _cached_rlp is non-empty holds its standard encoding there.
CacheInvariant == CachesStandard(obj)

RECURSIVE Attached(_, _)
\* the object o deserialized from item, each cache-bearing node holding the
\* input bytes of the item it was deserialized from
Attached(o, item) ==
    LET kids == IF item.t = "list" /\ Len(o.k) = Len(item.k)
                THEN [i \in 1..Len(o.k) |-> Attached(o.k[i], item.k[i])]
                ELSE o.k
    IN  [o EXCEPT !.k = kids,
                  !.cache = IF HasCachedRlp(o) THEN BytesVal(item.rlp)
                            ELSE o.cache]

\* C5: after a successful decode with a sedes, every cache-bearing object of
\* the result, at any depth, holds in _cached_rlp the input bytes (prefix
\* and payload) of the item it was deserialized from.
CacheAttachment ==
    call.op = "decode" /\ call.err = "none" /\ SedesTruthy(call.sedes) =>
        obj = Attached(call.built, call.item)

RECURSIVE StripCache(_)
\* the object without its caches: equality of values is over the fields
StripCache(o) ==
    [o EXCEPT !.cache = NoneVal,
              !.k = [i \in 1..Len(o.k) |-> StripCache(o.k[i])]]

\* C8: for every value v that infer_sedes accepts,
\* decode(encode(v), infer_sedes(v)) succeeds and equals v, a boolean coming
\* back as a boolean.
InferenceSoundness ==
    call.op = "roundtrip" =>
        /\ call.err = "none"
        /\ StripCache(call.ret) = StripCache(call.before)

\* C9: a failed encode or decode leaves every _cached_rlp as it was before
\* the call, in the caller's objects and in the object decode was building.
NoPartialCacheUpdate ==
    call.err # "none" =>
        /\ call.op = "encode" => obj = call.before
        /\ call.op = "decode" => call.walked = call.built

(***************************************************************************)
(* SpecRace: NumThreads threads call encode(r) (no sedes, cache true) on   *)
(* one record r whose cache starts empty.  A call is three steps: the read *)
(* of r._cached_rlp (lines 48-58), serialization and encode_raw (lines     *)
(* 60-67), and the write of r._cached_rlp with the return (lines 68-70).   *)
(* obj is r without its slot, cache the slot, thr each thread's locals.    *)
(***************************************************************************)
Threads == 1..NumThreads

RaceRecords == {r \in Records : IsSerializable(r)}

Local(p, cached_rlp, result, ret) ==
    [pc |-> p, cached_rlp |-> cached_rlp, result |-> result, ret |-> ret]

InitRace ==
    /\ obj \in RaceRecords
    /\ cache = NoneVal
    /\ thr = [t \in Threads |-> Local("start", NoneVal, <<>>, NoneVal)]
    /\ pc = Unused /\ arg = Unused /\ res = Unused /\ call = Unused

\* lines 48-58: read the slot, return it if it is non-empty
ReadCache(t) ==
    /\ thr[t].pc = "start"
    /\ thr' = [thr EXCEPT ![t] =
                 IF Truthy(cache) THEN Local("done", cache, <<>>, cache)
                 ELSE Local("encode", cache, <<>>, NoneVal)]
    /\ UNCHANGED <<obj, cache, pc, arg, res, call>>

\* lines 60-67: serialize under the inferred sedes and encode
ComputeResult(t) ==
    /\ thr[t].pc = "encode"
    /\ LET item == ItemToEncode(obj, None, TRUE)
           result == encode_raw(item.v)
       IN  /\ item.err = "none" /\ result.err = "none"
           /\ thr' = [thr EXCEPT ![t].pc = "store", ![t].result = result.v]
    /\ UNCHANGED <<obj, cache, pc, arg, res, call>>

\* lines 68-70: write the slot and return
StoreResult(t) ==
    /\ thr[t].pc = "store"
    /\ cache' = CacheStore(cache, thr[t].result)
    /\ thr' = [thr EXCEPT ![t].pc = "done",
                          ![t].ret = BytesVal(thr[t].result)]
    /\ UNCHANGED <<obj, pc, arg, res, call>>

NextRace ==
    \E t \in Threads : ReadCache(t) \/ ComputeResult(t) \/ StoreResult(t)

SpecRace == InitRace /\ [][NextRace]_vars

\* C7: under every interleaving of concurrent encode(r) calls that start
\* with an empty cache, every call returns the same bytes, every write
\* stores them, _cached_rlp never holds anything else, and once all calls
\* have returned it holds the standard encoding of r.
BenignRace ==
    LET std == StandardEncoding(obj)
    IN  /\ std.t = "bytes"
        /\ cache \in {NoneVal, std}
        /\ \A t \in Threads :
              /\ thr[t].pc = "done" => thr[t].ret = std
              /\ thr[t].pc = "store" => BytesVal(thr[t].result) = std
        /\ (\A t \in Threads : thr[t].pc = "done") => cache = std

\* every thread found the cache empty, encoded, wrote and returned
BenignRaceWitness ==
    /\ \A t \in Threads : thr[t].pc = "done" /\ thr[t].result # <<>>
    /\ Truthy(cache)

=============================================================================
